---------------------------- MODULE Spec2Model ----------------------------
(***************************************************************************)
(* Expression trees of src/pattern/Main.cpp: the four node kinds on a heap *)
(* of addresses, evaluate / print, the Transformer double dispatch, and    *)
(* the two transformers CopySyntaxTree and FoldConstants.                  *)
(*                                                                         *)
(* A double is abstracted to a small signed fixed-point format that keeps  *)
(* the IEEE-754 classes the code can produce: signed zeros, finite values  *)
(* (a magnitude counted in units of 1/FracUnits, rounded to nearest, ties  *)
(* to even), overflow to +-infinity beyond MaxMag, and NaN.  The sign and  *)
(* payload of a NaN are not tracked.                                       *)
(***************************************************************************)
EXTENDS Integers, Sequences, FiniteSets

\* Bounds of the model.
FracUnits == 2
MaxMag == 256
MaxCallerNodes == 3
MaxUses == 2

\* The null pointer.
Null == 0

(***************************************************************************)
(* double                                                                  *)
(***************************************************************************)
NaN == [c |-> "nan", neg |-> FALSE, m |-> 0]
Inf(neg) == [c |-> "inf", neg |-> neg, m |-> 0]
Fin(neg, m) == IF m > MaxMag * FracUnits THEN Inf(neg) ELSE [c |-> "fin", neg |-> neg, m |-> m]
\* The double nearest to the integer n.
D(n) == IF n < 0 THEN Fin(TRUE, (0 - n) * FracUnits) ELSE Fin(FALSE, n * FracUnits)

IsNaN(a) == a.c = "nan"
IsZero(a) == a.c = "fin" /\ a.m = 0

\* n / d rounded to the nearest integer, ties to even (n >= 0, d > 0).
RoundDiv(n, d) ==
  LET q == n \div d
      r == n % d
  IN  IF 2 * r > d THEN q + 1
      ELSE IF 2 * r = d THEN q + (q % 2)
      ELSE q

\* The integer nearest to the square root of n (n >= 0); never a tie.
RoundSqrt(n) ==
  LET r == CHOOSE k \in 0..n : k * k <= n /\ (k + 1) * (k + 1) > n
  IN  IF n - r * r > r THEN r + 1 ELSE r

FNeg(a) == IF IsNaN(a) THEN a ELSE [a EXCEPT !.neg = ~a.neg]

\* left + right
FAdd(a, b) ==
  IF IsNaN(a) \/ IsNaN(b) THEN NaN
  ELSE IF a.c = "inf" /\ b.c = "inf" THEN (IF a.neg = b.neg THEN a ELSE NaN)
  ELSE IF a.c = "inf" THEN a
  ELSE IF b.c = "inf" THEN b
  ELSE LET s == (IF a.neg THEN 0 - a.m ELSE a.m) + (IF b.neg THEN 0 - b.m ELSE b.m)
       IN  IF s = 0 THEN Fin(a.neg /\ b.neg, 0)
           ELSE IF s < 0 THEN Fin(TRUE, 0 - s)
           ELSE Fin(FALSE, s)

\* left - right
FSub(a, b) == FAdd(a, FNeg(b))

\* left * right
FMul(a, b) ==
  IF IsNaN(a) \/ IsNaN(b) THEN NaN
  ELSE IF (a.c = "inf" /\ IsZero(b)) \/ (IsZero(a) /\ b.c = "inf") THEN NaN
  ELSE IF a.c = "inf" \/ b.c = "inf" THEN Inf(a.neg # b.neg)
  ELSE Fin(a.neg # b.neg, RoundDiv(a.m * b.m, FracUnits))

\* left / right
FDiv(a, b) ==
  IF IsNaN(a) \/ IsNaN(b) THEN NaN
  ELSE IF (a.c = "inf" /\ b.c = "inf") \/ (IsZero(a) /\ IsZero(b)) THEN NaN
  ELSE IF a.c = "inf" \/ IsZero(b) THEN Inf(a.neg # b.neg)
  ELSE IF b.c = "inf" THEN Fin(a.neg # b.neg, 0)
  ELSE Fin(a.neg # b.neg, RoundDiv(a.m * FracUnits, b.m))

\* sqrt(x): NaN below zero, sqrt(-0) = -0.
FSqrt(a) ==
  IF IsNaN(a) THEN NaN
  ELSE IF IsZero(a) THEN a
  ELSE IF a.neg THEN NaN
  ELSE IF a.c = "inf" THEN a
  ELSE Fin(FALSE, RoundSqrt(a.m * FracUnits))

\* fabs(x)
FAbs(a) == IF IsNaN(a) THEN a ELSE [a EXCEPT !.neg = FALSE]

\* The comparison a == b of two doubles: a NaN equals nothing, -0 equals +0.
FEq(a, b) ==
  /\ ~IsNaN(a)
  /\ ~IsNaN(b)
  /\ \/ a = b
     \/ IsZero(a) /\ IsZero(b)

\* std::to_string(double), that is printf's "%f".
Digit == <<"0", "1", "2", "3", "4", "5", "6", "7", "8", "9">>
RECURSIVE DecStr(_)
DecStr(n) == IF n < 10 THEN Digit[n + 1] ELSE DecStr(n \div 10) \o Digit[(n % 10) + 1]
RECURSIVE Pad(_, _)
Pad(s, w) == IF Len(s) >= w THEN s ELSE Pad("0" \o s, w)
to_string(a) ==
  LET sign == IF a.neg THEN "-" ELSE ""
      micro == RoundDiv(a.m * 1000000, FracUnits)
  IN  IF IsNaN(a) THEN "nan"
      ELSE IF a.c = "inf" THEN sign \o "inf"
      ELSE sign \o DecStr(micro \div 1000000) \o "." \o Pad(DecStr(micro % 1000000), 6)


(***************************************************************************)
(* Expression nodes                                                        *)
(***************************************************************************)
PLUS == "+"
MINUS == "-"
DIV == "/"
MUL == "*"
\* The operator symbols BinaryOperation::evaluate has a case for.
Ops == {PLUS, MINUS, DIV, MUL}
\* What a caller may pass as the int op: one of the four, or another character.
OpArgs == Ops \cup {"%"}
\* The names FunctionCall accepts, and what a caller may pass.
FuncNames == {"sqrt", "abs"}
NameArgs == FuncNames \cup {"log"}
VarNames == {"var"}
\* The values a caller builds Number nodes from.
NumLits == {D(0), D(-4), D(16)}
\* What the xmm0 register may hold when evaluate falls off its switch.
Garbage == {D(1), NaN}

NumberNode(value) == [kind |-> "Number", value |-> value]
VariableNode(name) == [kind |-> "Variable", name |-> name]
BinaryOperationNode(left, op, right) ==
  [kind |-> "BinaryOperation", left |-> left, op |-> op, right |-> right]
FunctionCallNode(name, arg) == [kind |-> "FunctionCall", name |-> name, arg |-> arg]

\* assert(left_ && right_)
BinaryOperationAssert(left, op, right) == left # Null /\ right # Null
\* Mutant: the name is not checked.
FunctionCallAssert_ArgOnly(name, arg) == arg # Null

\* assert(arg_); assert(name_ == "sqrt" || name_ == "abs")
FunctionCallAssert(name, arg) == arg # Null /\ name \in FuncNames

\* The children of a node, left to right.
Children(n) ==
  CASE n.kind = "BinaryOperation" -> <<n.left, n.right>>
    [] n.kind = "FunctionCall" -> <<n.arg>>
    [] OTHER -> <<>>

\* The addresses of the tree rooted at a in heap h.
RECURSIVE Reach(_, _)
Reach(h, a) ==
  LET n == h[a]
  IN  CASE n.kind = "BinaryOperation" -> {a} \cup Reach(h, n.left) \cup Reach(h, n.right)
        [] n.kind = "FunctionCall" -> {a} \cup Reach(h, n.arg)
        [] OTHER -> {a}

\* Expression::evaluate, virtual.  g is the value that comes back when
\* BinaryOperation::evaluate runs off the end of its switch.
RECURSIVE evaluate(_, _, _)
BinaryOperation_evaluate(h, a, g) ==
  LET left == evaluate(h, h[a].left, g)
      right == evaluate(h, h[a].right, g)
      op == h[a].op
  IN  CASE op = PLUS -> FAdd(left, right)
        [] op = MINUS -> FSub(left, right)
        [] op = DIV -> FDiv(left, right)
        [] op = MUL -> FMul(left, right)
        [] OTHER -> g
FunctionCall_evaluate(h, a, g) ==
  IF h[a].name = "sqrt" THEN FSqrt(evaluate(h, h[a].arg, g))
  ELSE FAbs(evaluate(h, h[a].arg, g))
Number_evaluate(h, a, g) == h[a].value
Variable_evaluate(h, a, g) == D(0)
evaluate(h, a, g) ==
  CASE h[a].kind = "Number" -> Number_evaluate(h, a, g)
    [] h[a].kind = "Variable" -> Variable_evaluate(h, a, g)
    [] h[a].kind = "BinaryOperation" -> BinaryOperation_evaluate(h, a, g)
    [] h[a].kind = "FunctionCall" -> FunctionCall_evaluate(h, a, g)

\* Whether evaluating the tree at a runs off the end of a switch.
FallsOffSwitch(h, a) ==
  \E b \in Reach(h, a) : h[b].kind = "BinaryOperation" /\ h[b].op \notin Ops

\* Expression::print, virtual.
RECURSIVE print(_, _)
print(h, a) ==
  LET n == h[a]
  IN  CASE n.kind = "Number" -> to_string(n.value)
        [] n.kind = "Variable" -> n.name
        [] n.kind = "BinaryOperation" -> print(h, n.left) \o n.op \o print(h, n.right)
        [] n.kind = "FunctionCall" -> n.name \o "(" \o print(h, n.arg) \o ")"

(***************************************************************************)
(* The allocator.  A memory is [heap, next, freeCount, log, ub]: the live  *)
(* nodes by address, the next fresh address, how often each address handed *)
(* out so far was freed, the dispatch log of the running transformation,   *)
(* and whether undefined behaviour was met.  Addresses are never reused,   *)
(* so an address names one allocation.                                     *)
(***************************************************************************)

\* new T(...): the node is stored at the next fresh address, st.next.
New(st, node) ==
  [st EXCEPT !.heap = [x \in DOMAIN st.heap \cup {st.next} |->
                         IF x = st.next THEN node ELSE st.heap[x]],
             !.freeCount = [x \in DOMAIN st.freeCount \cup {st.next} |->
                              IF x = st.next THEN 0 ELSE st.freeCount[x]],
             !.next = st.next + 1]

\* Release of the storage at a.
Free(st, a) ==
  [st EXCEPT !.heap = [x \in DOMAIN st.heap \ {a} |-> st.heap[x]],
             !.freeCount = [st.freeCount EXCEPT ![a] = @ + 1]]

\* delete p: the destructor of *p, then the release of its storage.
\* ~BinaryOperation deletes left_ then right_, ~FunctionCall deletes arg_.
RECURSIVE Delete(_, _)
Delete(st, a) ==
  LET n == st.heap[a]
  IN  CASE n.kind = "BinaryOperation" -> Free(Delete(Delete(st, n.left), n.right), a)
        [] n.kind = "FunctionCall" -> Free(Delete(st, n.arg), a)
        [] OTHER -> Free(st, a)

(***************************************************************************)
(* Transformer: the visitor.  A transformation returns [st, root]: the     *)
(* memory after it and the address of the tree it produced.  build holds   *)
(* what the source leaves to the compiler: whether the two arguments of a  *)
(* constructor call are evaluated left to right (argsLeftFirst), and the   *)
(* value a switch without a matching case leaves behind (garbage).         *)
(* The log records, per node: "call" (transform entered), "visit" (the     *)
(* visitor method invoked), "result" (the method's return value) and       *)
(* "return" (transform's return value).                                    *)
(***************************************************************************)
Ev(e, a, method, result) == [ev |-> e, node |-> a, method |-> method, result |-> result]
Logged(st, e) == [st EXCEPT !.log = Append(@, e)]

RECURSIVE transform(_, _, _, _)

CopySyntaxTree_transformNumber(st, a, build) ==
  [st |-> New(st, NumberNode(st.heap[a].value)), root |-> st.next]

\* Mutant: the copies of the operands are passed in the wrong order.
CopySyntaxTree_transformBinaryOperation_Swapped(st, a, build) ==
  LET binop == st.heap[a]
      first == transform(st, IF build.argsLeftFirst THEN binop.left ELSE binop.right,
                         "CopySyntaxTree", build)
      second == transform(first.st, IF build.argsLeftFirst THEN binop.right ELSE binop.left,
                          "CopySyntaxTree", build)
      nleft == IF build.argsLeftFirst THEN first.root ELSE second.root
      nright == IF build.argsLeftFirst THEN second.root ELSE first.root
  IN  [st |-> New(second.st, BinaryOperationNode(nright, binop.op, nleft)),
       root |-> second.st.next]

CopySyntaxTree_transformBinaryOperation(st, a, build) ==
  LET binop == st.heap[a]
      first == transform(st, IF build.argsLeftFirst THEN binop.left ELSE binop.right,
                         "CopySyntaxTree", build)
      second == transform(first.st, IF build.argsLeftFirst THEN binop.right ELSE binop.left,
                          "CopySyntaxTree", build)
      nleft == IF build.argsLeftFirst THEN first.root ELSE second.root
      nright == IF build.argsLeftFirst THEN second.root ELSE first.root
  IN  [st |-> New(second.st, BinaryOperationNode(nleft, binop.op, nright)),
       root |-> second.st.next]

\* Mutant: a shallow copy, the new node points at the argument of the old.
CopySyntaxTree_transformFunctionCall_Shallow(st, a, build) ==
  LET fcall == st.heap[a]
  IN  [st |-> New(st, FunctionCallNode(fcall.name, fcall.arg)), root |-> st.next]

CopySyntaxTree_transformFunctionCall(st, a, build) ==
  LET fcall == st.heap[a]
      arg == transform(st, fcall.arg, "CopySyntaxTree", build)
  IN  [st |-> New(arg.st, FunctionCallNode(fcall.name, arg.root)), root |-> arg.st.next]

CopySyntaxTree_transformVariable(st, a, build) ==
  [st |-> New(st, VariableNode(st.heap[a].name)), root |-> st.next]

FoldConstants_transformNumber(st, a, build) ==
  [st |-> New(st, NumberNode(st.heap[a].value)), root |-> st.next]

\* Mutant: the folded Number takes the value of the left operand.
FoldConstants_transformBinaryOperation_LeftValue(st, a, build) ==
  LET binop == st.heap[a]
      nleft == transform(st, binop.left, "FoldConstants", build)
      nright == transform(nleft.st, binop.right, "FoldConstants", build)
      nbinop == nright.st.next
      s1 == New(nright.st, BinaryOperationNode(nleft.root, binop.op, nright.root))
      nleft_is_number == s1.heap[nleft.root].kind = "Number"
      nright_is_number == s1.heap[nright.root].kind = "Number"
      result == s1.next
      s2 == New([s1 EXCEPT !.ub = @ \/ FallsOffSwitch(s1.heap, a)],
                NumberNode(s1.heap[nleft.root].value))
  IN  IF nleft_is_number /\ nright_is_number
      THEN [st |-> Delete(s2, nbinop), root |-> result]
      ELSE [st |-> s1, root |-> nbinop]

\* Mutant: the rebuilt node always adds.
FoldConstants_transformBinaryOperation_Plus(st, a, build) ==
  LET binop == st.heap[a]
      nleft == transform(st, binop.left, "FoldConstants", build)
      nright == transform(nleft.st, binop.right, "FoldConstants", build)
      nbinop == nright.st.next
      s1 == New(nright.st, BinaryOperationNode(nleft.root, PLUS, nright.root))
      nleft_is_number == s1.heap[nleft.root].kind = "Number"
      nright_is_number == s1.heap[nright.root].kind = "Number"
      result == s1.next
      s2 == New([s1 EXCEPT !.ub = @ \/ FallsOffSwitch(s1.heap, a)],
                NumberNode(evaluate(s1.heap, a, build.garbage)))
  IN  IF nleft_is_number /\ nright_is_number
      THEN [st |-> Delete(s2, nbinop), root |-> result]
      ELSE [st |-> s1, root |-> nbinop]

\* Mutant: the transformed operands are passed in the wrong order.
FoldConstants_transformBinaryOperation_Swapped(st, a, build) ==
  LET binop == st.heap[a]
      nleft == transform(st, binop.left, "FoldConstants", build)
      nright == transform(nleft.st, binop.right, "FoldConstants", build)
      nbinop == nright.st.next
      s1 == New(nright.st, BinaryOperationNode(nright.root, binop.op, nleft.root))
      nleft_is_number == s1.heap[nleft.root].kind = "Number"
      nright_is_number == s1.heap[nright.root].kind = "Number"
      result == s1.next
      s2 == New([s1 EXCEPT !.ub = @ \/ FallsOffSwitch(s1.heap, a)],
                NumberNode(evaluate(s1.heap, a, build.garbage)))
  IN  IF nleft_is_number /\ nright_is_number
      THEN [st |-> Delete(s2, nbinop), root |-> result]
      ELSE [st |-> s1, root |-> nbinop]

\* Mutant: one Number operand is enough to fold.
FoldConstants_transformBinaryOperation_Either(st, a, build) ==
  LET binop == st.heap[a]
      nleft == transform(st, binop.left, "FoldConstants", build)
      nright == transform(nleft.st, binop.right, "FoldConstants", build)
      nbinop == nright.st.next
      s1 == New(nright.st, BinaryOperationNode(nleft.root, binop.op, nright.root))
      nleft_is_number == s1.heap[nleft.root].kind = "Number"
      nright_is_number == s1.heap[nright.root].kind = "Number"
      result == s1.next
      s2 == New([s1 EXCEPT !.ub = @ \/ FallsOffSwitch(s1.heap, a)],
                NumberNode(evaluate(s1.heap, a, build.garbage)))
  IN  IF nleft_is_number \/ nright_is_number
      THEN [st |-> Delete(s2, nbinop), root |-> result]
      ELSE [st |-> s1, root |-> nbinop]

\* Mutant: the right operand is transformed before the left.
FoldConstants_transformBinaryOperation_RightFirst(st, a, build) ==
  LET binop == st.heap[a]
      nright == transform(st, binop.right, "FoldConstants", build)
      nleft == transform(nright.st, binop.left, "FoldConstants", build)
      nbinop == nleft.st.next
      s1 == New(nleft.st, BinaryOperationNode(nleft.root, binop.op, nright.root))
      nleft_is_number == s1.heap[nleft.root].kind = "Number"
      nright_is_number == s1.heap[nright.root].kind = "Number"
      result == s1.next
      s2 == New([s1 EXCEPT !.ub = @ \/ FallsOffSwitch(s1.heap, a)],
                NumberNode(evaluate(s1.heap, a, build.garbage)))
  IN  IF nleft_is_number /\ nright_is_number
      THEN [st |-> Delete(s2, nbinop), root |-> result]
      ELSE [st |-> s1, root |-> nbinop]

FoldConstants_transformBinaryOperation(st, a, build) ==
  LET binop == st.heap[a]
      nleft == transform(st, binop.left, "FoldConstants", build)
      nright == transform(nleft.st, binop.right, "FoldConstants", build)
      nbinop == nright.st.next
      s1 == New(nright.st, BinaryOperationNode(nleft.root, binop.op, nright.root))
      nleft_is_number == s1.heap[nleft.root].kind = "Number"
      nright_is_number == s1.heap[nright.root].kind = "Number"
      result == s1.next
      s2 == New([s1 EXCEPT !.ub = @ \/ FallsOffSwitch(s1.heap, a)],
                NumberNode(evaluate(s1.heap, a, build.garbage)))
  IN  IF nleft_is_number /\ nright_is_number
      THEN [st |-> Delete(s2, nbinop), root |-> result]
      ELSE [st |-> s1, root |-> nbinop]

\* Mutant: the temporary FunctionCall is not deleted.
FoldConstants_transformFunctionCall_Leak(st, a, build) ==
  LET fcall == st.heap[a]
      arg == transform(st, fcall.arg, "FoldConstants", build)
      nfcall == arg.st.next
      s1 == New(arg.st, FunctionCallNode(fcall.name, arg.root))
      arg_is_number == s1.heap[arg.root].kind = "Number"
      result == s1.next
      s2 == New([s1 EXCEPT !.ub = @ \/ FallsOffSwitch(s1.heap, a)],
                NumberNode(evaluate(s1.heap, a, build.garbage)))
  IN  IF arg_is_number
      THEN [st |-> s2, root |-> result]
      ELSE [st |-> s1, root |-> nfcall]

FoldConstants_transformFunctionCall(st, a, build) ==
  LET fcall == st.heap[a]
      arg == transform(st, fcall.arg, "FoldConstants", build)
      nfcall == arg.st.next
      s1 == New(arg.st, FunctionCallNode(fcall.name, arg.root))
      arg_is_number == s1.heap[arg.root].kind = "Number"
      result == s1.next
      s2 == New([s1 EXCEPT !.ub = @ \/ FallsOffSwitch(s1.heap, a)],
                NumberNode(evaluate(s1.heap, a, build.garbage)))
  IN  IF arg_is_number
      THEN [st |-> Delete(s2, nfcall), root |-> result]
      ELSE [st |-> s1, root |-> nfcall]

FoldConstants_transformVariable(st, a, build) ==
  [st |-> New(st, VariableNode(st.heap[a].name)), root |-> st.next]

\* tr->method(a): the virtual call into the transformer tr.
Invoke(st, a, method, tr, build) ==
  LET s0 == Logged(st, Ev("visit", a, method, Null))
      r == CASE method = "transformNumber" ->
                  IF tr = "CopySyntaxTree" THEN CopySyntaxTree_transformNumber(s0, a, build)
                  ELSE FoldConstants_transformNumber(s0, a, build)
             [] method = "transformBinaryOperation" ->
                  IF tr = "CopySyntaxTree"
                  THEN CopySyntaxTree_transformBinaryOperation(s0, a, build)
                  ELSE FoldConstants_transformBinaryOperation(s0, a, build)
             [] method = "transformFunctionCall" ->
                  IF tr = "CopySyntaxTree" THEN CopySyntaxTree_transformFunctionCall(s0, a, build)
                  ELSE FoldConstants_transformFunctionCall(s0, a, build)
             [] method = "transformVariable" ->
                  IF tr = "CopySyntaxTree" THEN CopySyntaxTree_transformVariable(s0, a, build)
                  ELSE FoldConstants_transformVariable(s0, a, build)
  IN  [st |-> Logged(r.st, Ev("result", a, method, r.root)), root |-> r.root]

\* The visitor method each node kind's transform invokes on the transformer.
Number_transform == "transformNumber"
BinaryOperation_transform == "transformBinaryOperation"
FunctionCall_transform == "transformFunctionCall"
Variable_transform == "transformVariable"

\* e->transform(tr): the virtual call into the node at a, which passes
\* itself to its kind's visitor method and returns what that returns.
transform(st, a, tr, build) ==
  LET s0 == Logged(st, Ev("call", a, "", Null))
      method == CASE s0.heap[a].kind = "Number" -> Number_transform
                  [] s0.heap[a].kind = "BinaryOperation" -> BinaryOperation_transform
                  [] s0.heap[a].kind = "FunctionCall" -> FunctionCall_transform
                  [] s0.heap[a].kind = "Variable" -> Variable_transform
      r == Invoke(s0, a, method, tr, build)
  IN  [st |-> Logged(r.st, Ev("return", a, "", r.root)), root |-> r.root]

Transformers == {"CopySyntaxTree", "FoldConstants"}
Builds == [argsLeftFirst : BOOLEAN, garbage : Garbage]

(***************************************************************************)
(* The program: a caller that, like main, first builds trees with the four *)
(* constructors and then uses them: transforms, evaluates, deletes.        *)
(*   heap, nextAddr, freeCount  the allocator's state                      *)
(*   roots     the trees the caller owns (addresses of their roots)         *)
(*   built     how many nodes the caller has constructed                    *)
(*   uses      how many operations the caller has run on its trees          *)
(*   status    "running", "aborted" (an assert failed) or "crashed"         *)
(*   produced  for each root a transformation returned: its input, its      *)
(*             transformer and the addresses the call allocated             *)
(*   last      the last operation, with the memory it started from          *)
(***************************************************************************)
VARIABLES heap, nextAddr, freeCount, roots, built, uses, status, produced, last
vars == <<heap, nextAddr, freeCount, roots, built, uses, status, produced, last>>

Mem == [heap |-> heap, next |-> nextAddr, freeCount |-> freeCount, log |-> <<>>, ub |-> FALSE]
Only(f, S) == [x \in DOMAIN f \cap S |-> f[x]]

\* The tree main builds, abs(var * sqrt(32 - 16)): n32, n16, minus, callSqrt,
\* var, mult and callAbs at the addresses 1 to 7.
MainTree ==
  <<NumberNode(D(32)), NumberNode(D(16)), BinaryOperationNode(1, MINUS, 2),
    FunctionCallNode("sqrt", 3), VariableNode("var"), BinaryOperationNode(5, MUL, 4),
    FunctionCallNode("abs", 6)>>

\* Either nothing is built yet, or main has built its tree.
Init ==
  /\ \/ /\ heap = [x \in {} |-> Null]
        /\ nextAddr = 1
        /\ freeCount = [x \in {} |-> 0]
        /\ roots = {}
        /\ built = 0
     \/ /\ heap = [x \in 1..Len(MainTree) |-> MainTree[x]]
        /\ nextAddr = Len(MainTree) + 1
        /\ freeCount = [x \in 1..Len(MainTree) |-> 0]
        /\ roots = {Len(MainTree)}
        /\ built = Len(MainTree)
  /\ uses = 0
  /\ status = "running"
  /\ produced = [x \in {} |-> Null]
  /\ last = [op |-> "none"]

CanBuild == status = "running" /\ uses = 0 /\ built < MaxCallerNodes
\* The caller uses what it built once it holds a single tree, as main does.
CanUse == status = "running" /\ uses < MaxUses /\ (uses = 0 => Cardinality(roots) = 1)

\* new Number(value)
NewNumber(value) ==
  /\ CanBuild
  /\ heap' = New(Mem, NumberNode(value)).heap
  /\ freeCount' = New(Mem, NumberNode(value)).freeCount
  /\ nextAddr' = nextAddr + 1
  /\ roots' = roots \cup {nextAddr}
  /\ built' = built + 1
  /\ last' = [op |-> "new", kind |-> "Number", args |-> <<value>>, root |-> nextAddr]
  /\ UNCHANGED <<uses, status, produced>>

\* new Variable(name)
NewVariable(name) ==
  /\ CanBuild
  /\ heap' = New(Mem, VariableNode(name)).heap
  /\ freeCount' = New(Mem, VariableNode(name)).freeCount
  /\ nextAddr' = nextAddr + 1
  /\ roots' = roots \cup {nextAddr}
  /\ built' = built + 1
  /\ last' = [op |-> "new", kind |-> "Variable", args |-> <<name>>, root |-> nextAddr]
  /\ UNCHANGED <<uses, status, produced>>

\* new BinaryOperation(left, op, right): a failed assert aborts the program.
\* The operands are two different trees the caller owns.  An address only
\* names a node, so the caller is taken to have built the left one first.
NewBinaryOperation(left, op, right) ==
  /\ CanBuild
  /\ left # Null /\ right # Null => left < right
  /\ IF BinaryOperationAssert(left, op, right)
     THEN /\ heap' = New(Mem, BinaryOperationNode(left, op, right)).heap
          /\ freeCount' = New(Mem, BinaryOperationNode(left, op, right)).freeCount
          /\ nextAddr' = nextAddr + 1
          /\ roots' = (roots \ {left, right}) \cup {nextAddr}
          /\ built' = built + 1
          /\ last' = [op |-> "new", kind |-> "BinaryOperation",
                      args |-> <<left, op, right>>, root |-> nextAddr]
          /\ UNCHANGED <<uses, status, produced>>
     ELSE /\ status' = "aborted"
          /\ last' = [op |-> "new", kind |-> "BinaryOperation",
                      args |-> <<left, op, right>>, root |-> Null]
          /\ UNCHANGED <<heap, nextAddr, freeCount, roots, built, uses, produced>>

\* new FunctionCall(name, arg): a failed assert aborts the program.
NewFunctionCall(name, arg) ==
  /\ CanBuild
  /\ IF FunctionCallAssert(name, arg)
     THEN /\ heap' = New(Mem, FunctionCallNode(name, arg)).heap
          /\ freeCount' = New(Mem, FunctionCallNode(name, arg)).freeCount
          /\ nextAddr' = nextAddr + 1
          /\ roots' = (roots \ {arg}) \cup {nextAddr}
          /\ built' = built + 1
          /\ last' = [op |-> "new", kind |-> "FunctionCall", args |-> <<name, arg>>,
                      root |-> nextAddr]
          /\ UNCHANGED <<uses, status, produced>>
     ELSE /\ status' = "aborted"
          /\ last' = [op |-> "new", kind |-> "FunctionCall", args |-> <<name, arg>>,
                      root |-> Null]
          /\ UNCHANGED <<heap, nextAddr, freeCount, roots, built, uses, produced>>

\* What the build decides and the call on e can observe: the order of the
\* constructor arguments matters to CopySyntaxTree only, the garbage value
\* only where a switch has no case for its operator.
BuildsFor(e, tr) ==
  {b \in Builds :
     /\ tr = "FoldConstants" => b.argsLeftFirst
     /\ ~FallsOffSwitch(heap, e) => b.garbage = NaN}

\* e->transform(&tr), as in main: Expression* newExpr = callAbs->transform(&CST).
\* Where FoldConstants evaluates a node whose switch has no case for its
\* operator the behaviour is undefined: the call goes on with a garbage
\* value, or the program crashes.
Transform(e, tr, build) ==
  /\ CanUse
  /\ \E r \in {transform(Mem, e, tr, build)} :
      /\ uses' = uses + 1
      /\ \/ /\ heap' = r.st.heap
            /\ nextAddr' = r.st.next
            /\ freeCount' = r.st.freeCount
            /\ roots' = roots \cup {r.root}
            /\ produced' = [x \in DOMAIN produced \cup {r.root} |->
                              IF x = r.root
                              THEN [in |-> e, tr |-> tr, allocs |-> nextAddr..(r.st.next - 1)]
                              ELSE produced[x]]
            /\ last' = [op |-> "transform", tr |-> tr, in |-> e, out |-> r.root,
                        before |-> heap, beforeFree |-> freeCount, first |-> nextAddr,
                        log |-> r.st.log,
                        made |-> {}]
            /\ UNCHANGED <<built, status>>
         \/ /\ r.st.ub
            /\ status' = "crashed"
            /\ last' = [op |-> "transform", tr |-> tr, in |-> e, out |-> Null,
                        before |-> heap, beforeFree |-> freeCount, first |-> nextAddr,
                        log |-> <<>>,
                        made |-> {}]
            /\ UNCHANGED <<heap, nextAddr, freeCount, roots, built, produced>>

\* e->evaluate()
Evaluate(e, build) ==
  /\ CanUse
  /\ uses' = uses + 1
  /\ \/ /\ last' = [op |-> "evaluate", root |-> e, value |-> evaluate(heap, e, build.garbage)]
        /\ UNCHANGED status
     \/ /\ FallsOffSwitch(heap, e)
        /\ status' = "crashed"
        /\ last' = [op |-> "evaluate", root |-> e, value |-> build.garbage]
  /\ UNCHANGED <<heap, nextAddr, freeCount, roots, built, produced>>

\* delete e
DeleteTree(e) ==
  /\ CanUse
  /\ \E st \in {Delete(Mem, e)} :
      /\ uses' = uses + 1
      /\ heap' = st.heap
      /\ freeCount' = st.freeCount
      /\ roots' = roots \ {e}
      /\ produced' = Only(produced, roots')
      /\ last' = [op |-> "delete", root |-> e, before |-> heap, beforeFree |-> freeCount,
                  made |-> IF e \in DOMAIN produced THEN {produced[e]} ELSE {}]
      /\ UNCHANGED <<nextAddr, built, status>>

Next ==
  \/ \E value \in NumLits : NewNumber(value)
  \/ \E name \in VarNames : NewVariable(name)
  \/ \E left, right \in roots \cup {Null}, op \in OpArgs : NewBinaryOperation(left, op, right)
  \/ \E name \in NameArgs, arg \in roots \cup {Null} : NewFunctionCall(name, arg)
  \/ \E e \in roots, tr \in Transformers : \E build \in BuildsFor(e, tr) : Transform(e, tr, build)
  \/ \E e \in roots : \E build \in BuildsFor(e, "FoldConstants") : Evaluate(e, build)
  \/ \E e \in roots : DeleteTree(e)

Spec == Init /\ [][Next]_vars

(***************************************************************************)
(* Vocabulary of the properties                                            *)
(***************************************************************************)
\* Every operator of the tree at a is one evaluate has a case for.
WellFormed(h, a) ==
  \A b \in Reach(h, a) : h[b].kind = "BinaryOperation" => h[b].op \in Ops
HasVariable(h, a) == \E b \in Reach(h, a) : h[b].kind = "Variable"

\* The trees at a in h1 and at b in h2 have the same shape and, at every
\* position, the same kind, operator, name and stored value.
RECURSIVE SameStructure(_, _, _, _)
SameStructure(h1, a, h2, b) ==
  LET n1 == h1[a]
      n2 == h2[b]
  IN  /\ n1.kind = n2.kind
      /\ CASE n1.kind = "Number" -> n1.value = n2.value
           [] n1.kind = "Variable" -> n1.name = n2.name
           [] n1.kind = "BinaryOperation" ->
                /\ n1.op = n2.op
                /\ SameStructure(h1, n1.left, h2, n2.left)
                /\ SameStructure(h1, n1.right, h2, n2.right)
           [] n1.kind = "FunctionCall" ->
                /\ n1.name = n2.name
                /\ SameStructure(h1, n1.arg, h2, n2.arg)

\* The last operation was e->transform(&tr) and it returned.
Returned(tr) == last.op = "transform" /\ last.tr = tr /\ last.out # Null
ReturnedAny == last.op = "transform" /\ last.out # Null
\* The value of a well-formed tree.
Value(h, a) == evaluate(h, a, NaN)
\* Two doubles compare equal, or both are NaN.
SameDouble(a, b) == FEq(a, b) \/ (IsNaN(a) /\ IsNaN(b))
\* The addresses the last transformation allocated.
Allocated == DOMAIN freeCount \ DOMAIN last.beforeFree
\* FoldConstants applied to the sub-tree at b of the last call's input.
FoldOf(b) ==
  transform([heap |-> last.before, next |-> last.first, freeCount |-> last.beforeFree,
             log |-> <<>>, ub |-> FALSE],
            b, "FoldConstants", [argsLeftFirst |-> TRUE, garbage |-> NaN])
IsNumber(r) == r.st.heap[r.root].kind = "Number"

(***************************************************************************)
(* C1                                                                      *)
(***************************************************************************)
\* C1 as stated: FoldConstants turns a well-formed expression without any
\* Variable into a single Number whose value compares equal to e.evaluate().
C1_FoldOfConstantEqualsEvaluate ==
  (Returned("FoldConstants") /\ WellFormed(last.before, last.in)
     /\ ~HasVariable(last.before, last.in))
  => /\ heap[last.out].kind = "Number"
     /\ FEq(heap[last.out].value, Value(last.before, last.in))

\* C1 amended: the result is a single Number whose value compares equal to
\* e.evaluate(), or is NaN when e.evaluate() is NaN.
C1_FoldOfConstantIsItsValue ==
  (Returned("FoldConstants") /\ WellFormed(last.before, last.in)
     /\ ~HasVariable(last.before, last.in))
  => /\ heap[last.out].kind = "Number"
     /\ SameDouble(heap[last.out].value, Value(last.before, last.in))

\* A constant BinaryOperation was folded to a Number that compares equal to
\* its value.
C1_Witness ==
  /\ Returned("FoldConstants")
  /\ WellFormed(last.before, last.in)
  /\ ~HasVariable(last.before, last.in)
  /\ last.before[last.in].kind = "BinaryOperation"
  /\ heap[last.out].kind = "Number"
  /\ FEq(heap[last.out].value, Value(last.before, last.in))

(***************************************************************************)
(* C2                                                                      *)
(***************************************************************************)
\* C2 as stated: for a well-formed expression with a Variable,
\* fold(e).evaluate() == e.evaluate().
C2_FoldPreservesEvaluateEq ==
  (Returned("FoldConstants") /\ WellFormed(last.before, last.in)
     /\ HasVariable(last.before, last.in))
  => FEq(Value(heap, last.out), Value(last.before, last.in))

\* C2 amended: fold(e).evaluate() == e.evaluate(), or both are NaN.
C2_FoldPreservesValue ==
  (Returned("FoldConstants") /\ WellFormed(last.before, last.in)
     /\ HasVariable(last.before, last.in))
  => SameDouble(Value(heap, last.out), Value(last.before, last.in))

\* An expression with a Variable and a constant part was folded: the result
\* is smaller than the input and evaluates to the same value.
C2_Witness ==
  /\ Returned("FoldConstants")
  /\ WellFormed(last.before, last.in)
  /\ HasVariable(last.before, last.in)
  /\ Cardinality(Reach(heap, last.out)) < Cardinality(Reach(last.before, last.in))
  /\ FEq(Value(heap, last.out), Value(last.before, last.in))

(***************************************************************************)
(* C3                                                                      *)
(***************************************************************************)
\* C3: folding a tree FoldConstants returned gives a structurally identical
\* tree.
C3_FoldIdempotent ==
  (Returned("FoldConstants") /\ last.in \in DOMAIN produced
     /\ produced[last.in].tr = "FoldConstants" /\ WellFormed(last.before, last.in))
  => SameStructure(heap, last.in, heap, last.out)

\* A folded tree that still holds a BinaryOperation was folded again.
C3_Witness ==
  /\ Returned("FoldConstants")
  /\ last.in \in DOMAIN produced
  /\ produced[last.in].tr = "FoldConstants"
  /\ WellFormed(last.before, last.in)
  /\ heap[last.out].kind = "BinaryOperation"

(***************************************************************************)
(* C4                                                                      *)
(***************************************************************************)
\* C4: a transformation leaves every node that existed before it allocated
\* and unchanged, and every node of the tree it returns was allocated during
\* the call, so the input and the output share no node.
C4_InputUntouchedOutputFresh ==
  ReturnedAny
  => /\ \A b \in DOMAIN last.before :
          /\ b \in DOMAIN heap
          /\ heap[b] = last.before[b]
          /\ freeCount[b] = last.beforeFree[b]
     /\ Reach(heap, last.out) \subseteq Allocated
     /\ Reach(heap, last.out) \cap Reach(last.before, last.in) = {}

\* A composite tree was transformed.
C4_Witness ==
  /\ ReturnedAny
  /\ last.before[last.in].kind \in {"BinaryOperation", "FunctionCall"}
  /\ Cardinality(Reach(heap, last.out)) >= 1

(***************************************************************************)
(* C5                                                                      *)
(***************************************************************************)
\* C5: when a transformation returns, the nodes it allocated that are still
\* live are exactly those of the tree it returned, and each of the others
\* was freed once; deleting the returned root frees every node the call
\* allocated exactly once and nothing else.
C5_NoLeakNoDoubleFree ==
  /\ ReturnedAny
     => /\ Allocated \cap DOMAIN heap = Reach(heap, last.out)
        /\ \A a \in Allocated : freeCount[a] = IF a \in DOMAIN heap THEN 0 ELSE 1
  /\ (last.op = "delete" /\ last.made # {})
     => \A made \in last.made :
          /\ Reach(last.before, last.root) = made.allocs \cap DOMAIN last.before
          /\ \A a \in made.allocs : a \notin DOMAIN heap /\ freeCount[a] = 1
          /\ \A a \in DOMAIN freeCount \ made.allocs :
               /\ freeCount[a] = last.beforeFree[a]
               /\ a \in DOMAIN last.before => a \in DOMAIN heap /\ heap[a] = last.before[a]
          /\ made.in \in DOMAIN last.before
               => Reach(last.before, made.in) \subseteq DOMAIN heap

\* A tree FoldConstants returned after freeing its temporaries was deleted
\* while its input was still there.
C5_Witness ==
  /\ last.op = "delete"
  /\ \E made \in last.made :
       /\ made.tr = "FoldConstants"
       /\ Cardinality(made.allocs) > Cardinality(Reach(last.before, last.root))
       /\ made.in \in DOMAIN heap

(***************************************************************************)
(* C6                                                                      *)
(***************************************************************************)
\* C6: a BinaryOperation constructed without an operand, or a FunctionCall
\* constructed without an argument or with a name other than "sqrt" and
\* "abs", stops the program at the constructor, and no such node exists in
\* any tree.
C6_ConstructionValidated ==
  /\ (last.op = "new" /\ last.kind = "BinaryOperation"
        /\ (last.args[1] = Null \/ last.args[3] = Null))
     => status = "aborted" /\ last.root = Null
  /\ (last.op = "new" /\ last.kind = "FunctionCall"
        /\ (last.args[1] \notin {"sqrt", "abs"} \/ last.args[2] = Null))
     => status = "aborted" /\ last.root = Null
  /\ \A a \in DOMAIN heap :
       /\ heap[a].kind = "BinaryOperation"
            => heap[a].left \in DOMAIN heap /\ heap[a].right \in DOMAIN heap
       /\ heap[a].kind = "FunctionCall"
            => heap[a].name \in {"sqrt", "abs"} /\ heap[a].arg \in DOMAIN heap

\* FunctionCall("log", e) with an argument was rejected.
C6_Witness ==
  /\ status = "aborted"
  /\ last.op = "new"
  /\ last.kind = "FunctionCall"
  /\ last.args[1] = "log"
  /\ last.args[2] # Null

(***************************************************************************)
(* C7                                                                      *)
(***************************************************************************)
\* C7: every BinaryOperation of every tree has one of the four operators,
\* and evaluate never runs off its switch.
C7_OperatorAlwaysValid ==
  /\ \A a \in DOMAIN heap : heap[a].kind = "BinaryOperation" => heap[a].op \in Ops
  /\ status # "crashed"

(***************************************************************************)
(* C8                                                                      *)
(***************************************************************************)
\* C8: at every composite node of a well-formed input, FoldConstants returns
\* a Number exactly when the transformed children are all Numbers, and
\* otherwise a node of the same kind and operator (name) over the transformed
\* children, one of which holds a Variable; so the returned tree has no
\* BinaryOperation over two Numbers and no FunctionCall of a Number.
C8_FoldRule ==
  (Returned("FoldConstants") /\ WellFormed(last.before, last.in))
  => /\ SameStructure(heap, last.out, FoldOf(last.in).st.heap, FoldOf(last.in).root)
     /\ \A b \in Reach(last.before, last.in) :
          LET n == last.before[b]
              r == FoldOf(b)
              h == r.st.heap
          IN  /\ n.kind = "BinaryOperation"
                   => LET nleft == FoldOf(n.left)
                          nright == FoldOf(n.right)
                      IN  /\ IsNumber(r) <=> (IsNumber(nleft) /\ IsNumber(nright))
                          /\ ~IsNumber(r)
                               => /\ h[r.root].kind = "BinaryOperation"
                                  /\ h[r.root].op = n.op
                                  /\ SameStructure(h, h[r.root].left, nleft.st.heap, nleft.root)
                                  /\ SameStructure(h, h[r.root].right, nright.st.heap, nright.root)
                                  /\ \/ HasVariable(h, h[r.root].left)
                                     \/ HasVariable(h, h[r.root].right)
              /\ n.kind = "FunctionCall"
                   => LET arg == FoldOf(n.arg)
                      IN  /\ IsNumber(r) <=> IsNumber(arg)
                          /\ ~IsNumber(r)
                               => /\ h[r.root].kind = "FunctionCall"
                                  /\ h[r.root].name = n.name
                                  /\ SameStructure(h, h[r.root].arg, arg.st.heap, arg.root)
                                  /\ HasVariable(h, h[r.root].arg)
     /\ \A c \in Reach(heap, last.out) :
          /\ heap[c].kind = "BinaryOperation"
               => ~(heap[heap[c].left].kind = "Number" /\ heap[heap[c].right].kind = "Number")
          /\ heap[c].kind = "FunctionCall" => heap[heap[c].arg].kind # "Number"

\* main's fold: abs(var * sqrt(32 - 16)) became abs(var * 4).
C8_Witness ==
  /\ Returned("FoldConstants")
  /\ print(last.before, last.in) = "abs(var*sqrt(32.000000-16.000000))"
  /\ print(heap, last.out) = "abs(var*4.000000)"

(***************************************************************************)
(* C9                                                                      *)
(***************************************************************************)
\* C9 as stated: the copy of a well-formed expression is structurally
\* identical to it, prints the same, evaluates to a value that compares
\* equal, and is a distinct tree.
C9_CopyIdenticalEq ==
  (Returned("CopySyntaxTree") /\ WellFormed(last.before, last.in))
  => /\ SameStructure(heap, last.out, last.before, last.in)
     /\ print(heap, last.out) = print(last.before, last.in)
     /\ FEq(Value(heap, last.out), Value(last.before, last.in))
     /\ Reach(heap, last.out) \cap Reach(last.before, last.in) = {}

\* C9 amended: as stated, but the two values compare equal or are both NaN.
C9_CopyIdentical ==
  (Returned("CopySyntaxTree") /\ WellFormed(last.before, last.in))
  => /\ SameStructure(heap, last.out, last.before, last.in)
     /\ print(heap, last.out) = print(last.before, last.in)
     /\ SameDouble(Value(heap, last.out), Value(last.before, last.in))
     /\ Reach(heap, last.out) \cap Reach(last.before, last.in) = {}

\* main's copy: abs(var * sqrt(32 - 16)) was copied and prints the same.
C9_Witness ==
  /\ Returned("CopySyntaxTree")
  /\ print(heap, last.out) = "abs(var*sqrt(32.000000-16.000000))"
  /\ last.in # last.out

(***************************************************************************)
(* C10                                                                     *)
(***************************************************************************)
\* Positions in the last transformation's log of the events e of node a.
At(e, a) == {i \in 1..Len(last.log) : last.log[i].ev = e /\ last.log[i].node = a}
Pos(e, a) == CHOOSE i \in At(e, a) : TRUE
MethodFor(kind) == "transform" \o kind

\* transform on node a invokes one visitor method, the one of a's kind, with
\* a itself, and returns what it returned.
DispatchedExactly(a) ==
  /\ \A e \in {"call", "visit", "result", "return"} : Cardinality(At(e, a)) = 1
  /\ Pos("visit", a) = Pos("call", a) + 1
  /\ Pos("return", a) = Pos("result", a) + 1
  /\ Pos("visit", a) < Pos("result", a)
  /\ last.log[Pos("visit", a)].method = MethodFor(last.before[a].kind)
  /\ last.log[Pos("result", a)].method = MethodFor(last.before[a].kind)
  /\ last.log[Pos("return", a)].result = last.log[Pos("result", a)].result

\* The children of a are dispatched inside a's visitor method.
ChildrenInside(a) ==
  \A i \in 1..Len(Children(last.before[a])) :
    LET c == Children(last.before[a])[i]
    IN  Pos("visit", a) < Pos("call", c) /\ Pos("return", c) < Pos("result", a)

\* The left child of a BinaryOperation a is done before the right is begun.
LeftBeforeRight(a) ==
  last.before[a].kind = "BinaryOperation"
  => Pos("return", last.before[a].left) < Pos("call", last.before[a].right)

DispatchLogged ==
  /\ {last.log[i].node : i \in 1..Len(last.log)} = Reach(last.before, last.in)
  /\ last.log[Len(last.log)] = Ev("return", last.in, "", last.out)
  /\ \A a \in Reach(last.before, last.in) : DispatchedExactly(a) /\ ChildrenInside(a)

\* C10 as stated: exact double dispatch, every input node dispatched once,
\* children before the composite's result, left before right, for both
\* transformers.
C10_DispatchLeftToRight ==
  ReturnedAny
  => /\ DispatchLogged
     /\ \A a \in Reach(last.before, last.in) : LeftBeforeRight(a)

\* C10 amended: as stated, with left before right for FoldConstants only.
C10_Dispatch ==
  ReturnedAny
  => /\ DispatchLogged
     /\ last.tr = "FoldConstants"
          => \A a \in Reach(last.before, last.in) : LeftBeforeRight(a)

\* FoldConstants went through a BinaryOperation with two leaves.
C10_Witness ==
  /\ Returned("FoldConstants")
  /\ last.before[last.in].kind = "BinaryOperation"
  /\ Len(last.log) = 12

=============================================================================
